---- MODULE Spec2Model ----
(***************************************************************************)
(* The job queue and worker scheduler of src/upload.js (lines 1-367, the   *)
(* current variant of the server): the jobs table, the /create-job and     *)
(* /stop-job handlers, the dispatch tick checkAndProcessJobs and the       *)
(* worker processJob.                                                      *)
(*                                                                         *)
(* Every await of a handler is a point where other handlers may run.  A    *)
(* step of the model is one store call together with the driver calls     *)
(* that follow it up to the next store call: driver calls touch only the   *)
(* worker's own browser, so no other handler can tell them apart from the  *)
(* store call they are merged with.                                        *)
(***************************************************************************)
EXTENDS Integers, Sequences, FiniteSets, TLC

\* ---------------------------------------------------------------- bounds
MaxJobs == 2        \* rows /create-job may insert
MaxImages == 2      \* files one /create-job request may carry
NumTickers == 2     \* dispatch ticks that may be in flight at once
MaxTotalImages == 2 \* files all accepted /create-job requests carry together
MaxFaults == 1      \* store, driver and file-system calls of workers that fail

\* ------------------------------------------------------ program constants
MaxAttempts == 10   \* for (let attempt = 0; attempt < 10; attempt++)

JobIds == 1..MaxJobs
Tickers == 1..NumTickers

Terminal == {"completed", "failed", "cancelled"}

\* ------------------------------------------------------------- messages
ProgressCreated == <<"Job created and waiting to be processed.">>
ProgressStarting == <<"Starting job processing...">>
ProgressCancelled == <<"Job cancelled by user.">>
ProgressLogin == <<"Logging into portal...">>
ProgressRefresh == <<"Refreshing page for next upload...">>
ProgressSelect == <<"Selecting display...">>
ProgressConfirm == <<"Waiting for upload confirmation...">>
ProgressCompleted == <<"All images uploaded successfully.">>
ProgressUploading(n, total) == <<"Uploading image", n, total>>
ProgressWaiting(interval) == <<"Waiting for minute(s)", interval>>
ProgressError(errorMessage) == <<"An error occurred: ", errorMessage>>

UPLOAD_SUBMIT_BUTTON_SELECTOR == "#pushBtn1"

ErrStore == "Connection terminated unexpectedly"
ErrLaunch == "Failed to launch the browser process"
ErrDriver == "Navigation timeout of 30000 ms exceeded"
ErrNotClickable == "Node is either not clickable or not an Element"
ErrRetries == "The upload button was enabled but not clickable after 10 retries."
ErrTimeout == "Timed out waiting for the status log to update after upload."
ErrPortal == "The portal reported an error during the upload. Check the status log for details."
ClickMessage == "A button on the page was not clickable. The website layout may have changed or an overlay was present. (Selector: #pushBtn1)"

\* String.prototype.includes on the messages above, as a table of the
\* substrings the code asks about.
Includes(text, word) ==
    <<text, word>> \in
        { <<ErrNotClickable, "not clickable">>, <<ErrNotClickable, "click">>,
          <<ErrNotClickable, "clickable">>,
          <<ErrRetries, "not clickable">>, <<ErrRetries, "click">>,
          <<ErrRetries, "clickable">>,
          <<ClickMessage, "not clickable">>, <<ClickMessage, "click">>,
          <<ClickMessage, "clickable">>,
          <<ClickMessage, UPLOAD_SUBMIT_BUTTON_SELECTOR>> }

\* The portal's #statuslog texts the driver may read, and toLowerCase on them.
LogTexts == {"Image pushed to display", "Upload FAILED", "Error: display offline"}

ToLowerCase(text) ==
    CASE text = "Image pushed to display" -> "image pushed to display"
      [] text = "Upload FAILED" -> "upload failed"
      [] text = "Error: display offline" -> "error: display offline"
      [] OTHER -> text

LogIncludes(text, word) ==
    <<text, word>> \in
        { <<"upload failed", "failed">>, <<"error: display offline", "error">>,
          <<"Error: display offline", "Error">>, <<"Upload FAILED", "FAILED">> }

\* logs.toLowerCase().includes('failed') || logs.toLowerCase().includes('error')
PortalReportsErrorMutant(logs) ==
    LogIncludes(logs, "failed") \/ LogIncludes(logs, "error")

PortalReportsError(logs) ==
    LogIncludes(ToLowerCase(logs), "failed") \/ LogIncludes(ToLowerCase(logs), "error")

\* parseInt(settings.interval, 10) || 0 on the interval strings a request sends
IntervalInputs == {"", "1"}

ParseInterval(interval) == IF interval = "1" THEN 1 ELSE 0

\* ---------------------------------------------------------------- state
VARIABLES
    jobs,       \* the jobs table: a sequence of rows, the id is the index
    files,      \* files under images_to_upload: <<job id, image index>>
    lock,       \* row locks: lock[id] is the tick holding the row, or 0
    tick,       \* per dispatch tick: [pc, row]
    w,          \* per job id: the state of the processJob call for it
    unlinks,    \* history: files fs.unlink was called for
    runs,       \* history: processJob calls started for the job
    cancelAt,   \* history: where the job was when /stop-job cancelled it
    faults,     \* calls of workers that have failed so far
    poolMax     \* the size of the connection pool

vars == <<jobs, files, lock, tick, w, unlinks, runs, cancelAt, faults, poolMax>>

\* The locals of one processJob call: pc, i, isFirstImageOfJob, browser, the
\* pool client and the caught error; clicks (page.click calls of the last click loop) and
\* uploaded (images uploaded in the current pass) are history.
NoWorker ==
    [pc |-> "none", i |-> 0, isFirstImageOfJob |-> TRUE, clicks |-> 0,
     browser |-> "null", client |-> "null", error |-> "", uploaded |-> <<>>]

\* new Pool({ connectionString, ssl }): the size is the library's default and
\* no connection timeout is set, so pool.connect() waits until a client is
\* free.  The sizes tried: the smallest pool, and one no run can use up.
PoolSizes == {1, MaxJobs + 1}

\* The clients checked out: one per claim statement in flight, one per
\* processJob call between its pool.connect() and its client.release().
InUse ==
    Cardinality({t \in Tickers : tick[t].pc = "update"})
        + Cardinality({id \in JobIds : w[id].client = "held"})

\* pool.connect() resolves only while a client is free.
FreeClient == InUse < poolMax

Exists(id) == id \in DOMAIN jobs

Images(id) == 1..jobs[id].images

RECURSIVE TotalImages(_)
TotalImages(n) == IF n = 0 THEN 0 ELSE jobs[n].images + TotalImages(n - 1)

\* A call of a worker returns, or it fails and is counted.
Returns == UNCHANGED faults

Fails == faults < MaxFaults /\ faults' = faults + 1

Init ==
    /\ jobs = <<>>
    /\ files = {}
    /\ lock = [id \in JobIds |-> 0]
    /\ tick = [t \in Tickers |-> [pc |-> "idle", row |-> 0]]
    /\ w = [id \in JobIds |-> NoWorker]
    /\ unlinks = {}
    /\ runs = [id \in JobIds |-> 0]
    /\ cancelAt = [id \in JobIds |-> "none"]
    /\ faults = 0
    /\ poolMax \in PoolSizes

\* ----------------------------------------------------- POST /create-job
\* if (!userId || !portalUser || !portalPass || !displayValue || images.length === 0)
MissingFieldsMutant(req) ==
    req.userId = "" \/ req.portalUser = "" \/ req.portalPass = ""
        \/ req.displayValue = ""

MissingFields(req) ==
    req.userId = "" \/ req.portalUser = "" \/ req.portalPass = ""
        \/ req.displayValue = "" \/ req.files = 0

\* The request bodies tried: every combination of present and absent required
\* fields and file counts; interval and cycle vary on the complete requests.
Requests ==
    { req \in [userId : {"", "u"}, portalUser : {"", "p"}, portalPass : {"", "s"},
               displayValue : {"", "d"}, interval : IntervalInputs,
               cycle : {"true", "false"}, files : 0..MaxImages] :
        (req.userId = "" \/ req.portalUser = "" \/ req.portalPass = ""
            \/ req.displayValue = "" \/ req.files = 0)
          => (req.interval = "" /\ req.cycle = "false") }

\* The row the INSERT adds; cycle is stored as cycle === 'true'.
NewRow(req) ==
    [status |-> "queued", progress |-> ProgressCreated, logs |-> "NULL",
     images |-> req.files, cycle |-> (req.cycle = "true"),
     interval |-> req.interval]

\* The handler: 400 on a missing field; else, once pool.connect() has given a
\* client, 201 with the row inserted or 500 when the INSERT throws.  Files of a rejected request stay on disk unreferenced
\* and are not tracked.  Requests are sent until MaxJobs rows exist.
CreateJob(req, code) ==
    /\ Len(jobs) < MaxJobs
    /\ UNCHANGED <<lock, tick, w, unlinks, runs, cancelAt, faults, poolMax>>
    /\ \/ /\ MissingFields(req)
          /\ code = 400
          /\ UNCHANGED <<jobs, files>>
       \/ /\ ~MissingFields(req)
          /\ FreeClient
          /\ TotalImages(Len(jobs)) + req.files <= MaxTotalImages
          /\ code = 201
          /\ jobs' = Append(jobs, NewRow(req))
          /\ files' = files \cup {<<Len(jobs) + 1, k>> : k \in 1..req.files}
       \/ /\ ~MissingFields(req)
          /\ FreeClient
          /\ code = 500
          /\ UNCHANGED <<jobs, files>>

\* The worker of a running job is between two images when one image's steps
\* are over and the status check of the next has not been made: asleep in
\* the interval wait, or about to make the check of an image that is not the
\* first of the job.
Between(id) ==
    \/ w[id].pc = "sleep"
    \/ w[id].pc = "check" /\ ~w[id].isFirstImageOfJob

Position(id) ==
    CASE jobs[id].status = "queued" -> "queued"
      [] Between(id) -> "between"
      [] OTHER -> "busy"

\* ------------------------------------------- GET /job-status/:userId
\* Once pool.connect() has given a client: the user's latest row, or 404 when
\* there is none.  The handler reads only.
JobStatus(code) ==
    /\ FreeClient
    /\ code = IF Len(jobs) > 0 THEN 200 ELSE 404
    /\ UNCHANGED vars

\* ----------------------------------------------- POST /stop-job/:jobId
\* UPDATE jobs SET status = 'cancelled', progress = 'Job cancelled by user.'
\*   WHERE id = $1 AND (status = 'running' OR status = 'queued') RETURNING id
StopMatchesMutant(id) == Exists(id)

StopMatches(id) == Exists(id) /\ jobs[id].status \in {"running", "queued"}

\* 200 when a row was updated, 404 when none was, 500 when the query throws.
\* The UPDATE waits while a claim statement holds the row's lock.
StopJob(id, code) ==
    /\ UNCHANGED <<files, lock, tick, w, unlinks, runs, faults, poolMax>>
    /\ FreeClient
    /\ \/ /\ StopMatches(id)
          /\ lock[id] = 0
          /\ code = 200
          /\ jobs' = [jobs EXCEPT ![id].status = "cancelled",
                                  ![id].progress = ProgressCancelled]
          /\ cancelAt' = [cancelAt EXCEPT ![id] = Position(id)]
       \/ /\ ~StopMatches(id)
          /\ code = 404
          /\ UNCHANGED <<jobs, cancelAt>>
       \/ /\ code = 500
          /\ UNCHANGED <<jobs, cancelAt>>

\* ------------------------------------------------- checkAndProcessJobs
\* SELECT id FROM jobs WHERE status = 'queued' ORDER BY created_at ASC
\*   FOR UPDATE SKIP LOCKED LIMIT 1
\* The locking read takes a row only if its latest committed version is still
\* queued and no other transaction holds its lock; created_at grows with id.
ClaimableMutant(id) == Exists(id) /\ jobs[id].status = "queued"

ClaimableAnyMutant(id) == Exists(id) /\ lock[id] = 0

Claimable(id) == Exists(id) /\ jobs[id].status = "queued" /\ lock[id] = 0

\* ORDER BY created_at ASC LIMIT 1
OldestMutant(S) == CHOOSE id \in S : \A o \in S : id >= o

Oldest(S) == CHOOSE id \in S : \A o \in S : id <= o

\* The tick has its client from pool.connect() and runs the subquery: the oldest claimable row is locked for this
\* statement; with no claimable row the statement returns no rows and the
\* tick ends (rows.length === 0).
TickSelect(t) ==
    /\ tick[t].pc = "idle"
    /\ FreeClient
    /\ LET S == {id \in JobIds : Claimable(id)} IN
        IF S = {}
        THEN UNCHANGED <<lock, tick>>
        ELSE /\ lock' = [lock EXCEPT ![Oldest(S)] = t]
             /\ tick' = [tick EXCEPT ![t] = [pc |-> "update", row |-> Oldest(S)]]
    /\ UNCHANGED <<jobs, files, w, unlinks, runs, cancelAt, faults, poolMax>>

\* processJob(job) is called and not awaited: the worker starts at
\* pool.connect().
StartWorker(id) == [NoWorker EXCEPT !.pc = "connect"]

\* The outer UPDATE sets the locked row to running, the statement commits
\* (the lock goes), RETURNING * hands the row over and the worker starts.
TickUpdate(t) ==
    /\ tick[t].pc = "update"
    /\ LET id == tick[t].row IN
        /\ jobs' = [jobs EXCEPT ![id].status = "running",
                                ![id].progress = ProgressStarting]
        /\ lock' = [lock EXCEPT ![id] = 0]
        /\ w' = [w EXCEPT ![id] = StartWorker(id)]
        /\ runs' = [runs EXCEPT ![id] = @ + 1]
    /\ tick' = [tick EXCEPT ![t] = [pc |-> "idle", row |-> 0]]
    /\ UNCHANGED <<files, unlinks, cancelAt, faults, poolMax>>

\* The claim query throws: the statement rolls back (a lock it took goes),
\* the catch logs, the tick ends.
TickError(t) ==
    /\ tick[t].pc = "update"
    /\ lock' = [lock EXCEPT ![tick[t].row] = 0]
    /\ tick' = [tick EXCEPT ![t] = [pc |-> "idle", row |-> 0]]
    /\ UNCHANGED <<jobs, files, w, unlinks, runs, cancelAt, faults, poolMax>>

\* ------------------------------------------------------------ processJob
\* Leaving the try block ends the scope of its locals (i, isFirstImageOfJob,
\* clickSuccessful): browser and the caught error are what the catch and the
\* finally block still read.
Leave(r, pc) ==
    [NoWorker EXCEPT !.pc = pc, !.browser = r.browser, !.client = r.client,
                     !.error = r.error, !.clicks = r.clicks]

\* A throw inside the try block: control goes to the catch with the error.
Throw(r, message) == [Leave(r, "catch") EXCEPT !.error = message]

\* UPDATE jobs SET progress = ... WHERE id = $1
WriteProgress(id, text) == jobs' = [jobs EXCEPT ![id].progress = text]

\* const client = await pool.connect(), before the try block: when it rejects
\* processJob rejects with nothing caught and nothing cleaned up.
WConnect(id) ==
    /\ w[id].pc = "connect"
    /\ \/ /\ FreeClient
          /\ w' = [w EXCEPT ![id].pc = "login", ![id].client = "held"]
          /\ Returns
       \/ /\ w' = [w EXCEPT ![id].pc = "done", ![id].error = ErrStore]
          /\ Fails
    /\ UNCHANGED <<jobs, files, lock, tick, unlinks, runs, cancelAt, poolMax>>

\* 'Logging into portal...', puppeteer.launch, newPage, goto, type, and the
\* click on the login button, which may be not clickable too.
WLogin(id) ==
    /\ w[id].pc = "login"
    /\ \/ /\ w' = [w EXCEPT ![id] = Throw(@, ErrStore)]
          /\ Fails
          /\ UNCHANGED jobs
       \/ /\ WriteProgress(id, ProgressLogin)
          /\ \/ /\ w' = [w EXCEPT ![id] = Throw(@, ErrLaunch)]
                /\ Fails
             \/ /\ \E e \in {ErrDriver, ErrNotClickable} :
                     w' = [w EXCEPT ![id] = Throw([@ EXCEPT !.browser = "open"], e)]
                /\ Fails
             \/ /\ w' = [w EXCEPT ![id] = [@ EXCEPT !.browser = "open", !.pc = "check",
                                                    !.i = 0]]
                /\ Returns
    /\ UNCHANGED <<files, lock, tick, unlinks, runs, cancelAt, poolMax>>

\* if (jobCheckResult.rows[0].status !== 'running') return;
HaltsMutant(status) == status \in {"completed", "failed"}

Halts(status) == status # "running"

\* The checkpoint at the top of every image iteration: SELECT status.
WCheck(id) ==
    /\ w[id].pc = "check"
    /\ \/ /\ w' = [w EXCEPT ![id] = Throw(@, ErrStore)]
          /\ Fails
       \/ /\ Halts(jobs[id].status)
          /\ w' = [w EXCEPT ![id] = Leave(@, "finally")]
          /\ Returns
       \/ /\ ~Halts(jobs[id].status)
          /\ w' = [w EXCEPT ![id].pc =
                       IF w[id].isFirstImageOfJob THEN "select" ELSE "refresh"]
          /\ Returns
    /\ UNCHANGED <<jobs, files, lock, tick, unlinks, runs, cancelAt, poolMax>>

\* if (!isFirstImageOfJob): 'Refreshing page for next upload...', page.reload.
WRefresh(id) ==
    /\ w[id].pc = "refresh"
    /\ \/ /\ w' = [w EXCEPT ![id] = Throw(@, ErrStore)]
          /\ Fails
          /\ UNCHANGED jobs
       \/ /\ WriteProgress(id, ProgressRefresh)
          /\ \/ /\ w' = [w EXCEPT ![id] = Throw(@, ErrDriver)]
                /\ Fails
             \/ /\ w' = [w EXCEPT ![id].pc = "select"]
                /\ Returns
    /\ UNCHANGED <<files, lock, tick, unlinks, runs, cancelAt, poolMax>>

\* isFirstImageOfJob = false; 'Selecting display...', waitForSelector, select.
WSelect(id) ==
    /\ w[id].pc = "select"
    /\ LET r == [w[id] EXCEPT !.isFirstImageOfJob = FALSE] IN
       \/ /\ w' = [w EXCEPT ![id] = Throw(r, ErrStore)]
          /\ Fails
          /\ UNCHANGED jobs
       \/ /\ WriteProgress(id, ProgressSelect)
          /\ \/ /\ w' = [w EXCEPT ![id] = Throw(r, ErrDriver)]
                /\ Fails
             \/ /\ w' = [w EXCEPT ![id] = [r EXCEPT !.pc = "progress"]]
                /\ Returns
    /\ UNCHANGED <<files, lock, tick, unlinks, runs, cancelAt, poolMax>>

\* const image = images[i]: the image of iteration i, counted from 1.
ImageOfMutant(i) == 1

ImageOf(i) == i + 1

\* `Uploading image ${i + 1} of ${images.length}`, waitForSelector of the file
\* input, fileInput.uploadFile(image.path), the wait for the enabled button.
WProgress(id) ==
    /\ w[id].pc = "progress"
    /\ LET r == w[id]
           up == [r EXCEPT !.uploaded = Append(@, ImageOf(r.i))] IN
       \/ /\ w' = [w EXCEPT ![id] = Throw(r, ErrStore)]
          /\ Fails
          /\ UNCHANGED jobs
       \/ /\ WriteProgress(id, ProgressUploading(ImageOf(r.i), jobs[id].images))
          /\ \/ /\ w' = [w EXCEPT ![id] = Throw(r, ErrDriver)]
                /\ Fails
             \/ /\ w' = [w EXCEPT ![id] = [up EXCEPT !.pc = "click"]]
                /\ Returns
    /\ UNCHANGED <<files, lock, tick, unlinks, runs, cancelAt, poolMax>>

\* for (let attempt = 0; attempt < 10; attempt++)
LoopContinuesMutant(attempt) == attempt <= MaxAttempts

LoopContinues(attempt) == attempt < MaxAttempts

\* if (e.message.includes('not clickable')) retry, else throw e
IsRetryableMutant(message) == TRUE

IsRetryable(message) == Includes(message, "not clickable")

\* What page.click does at each attempt: not clickable for the first k
\* attempts, then `last` ("ok" or another error).  k takes the values around
\* the ends of the loop.
ClickInputs ==
    [k : {0, 1, MaxAttempts - 1, MaxAttempts, MaxAttempts + 1},
     last : {"ok", ErrDriver}]

ClickOutcome(attempt, in) == IF attempt < in.k THEN ErrNotClickable ELSE in.last

\* The click loop from `attempt` on: the page.click calls made in all and
\* "ok" (clickSuccessful) or the error thrown; ErrRetries is the throw after
\* a loop that ended with clickSuccessful false.  The one-second pauses and
\* the clicks touch the worker's browser alone, so the loop is one step.
RECURSIVE ClickLoop(_, _)
ClickLoop(attempt, in) ==
    IF ~LoopContinues(attempt)
    THEN [clicks |-> attempt, result |-> ErrRetries]
    ELSE LET e == ClickOutcome(attempt, in) IN
         IF e = "ok" THEN [clicks |-> attempt + 1, result |-> "ok"]
         ELSE IF IsRetryable(e) THEN ClickLoop(attempt + 1, in)
         ELSE [clicks |-> attempt + 1, result |-> e]

\* The click loop of one image when page.click behaves as `in` says.
WClickOn(id, in) ==
    /\ w[id].pc = "click"
    /\ LET out == ClickLoop(0, in)
           r == [w[id] EXCEPT !.clicks = out.clicks] IN
       /\ w' = [w EXCEPT ![id] =
                  IF out.result = "ok" THEN [r EXCEPT !.pc = "confirm"]
                  ELSE Throw(r, out.result)]
       /\ IF out.result = ErrDriver THEN Fails ELSE Returns
    /\ UNCHANGED <<jobs, files, lock, tick, unlinks, runs, cancelAt, poolMax>>

WClick(id) == \E in \in ClickInputs : WClickOn(id, in)

\* 'Waiting for upload confirmation...', then the wait for #statuslog to
\* change, which times out after 120 s.
WConfirm(id) ==
    /\ w[id].pc = "confirm"
    /\ LET r == [w[id] EXCEPT !.clicks = 0] IN
       \/ /\ w' = [w EXCEPT ![id] = Throw(r, ErrStore)]
          /\ Fails
          /\ UNCHANGED jobs
       \/ /\ WriteProgress(id, ProgressConfirm)
          /\ \/ /\ w' = [w EXCEPT ![id] = Throw(r, ErrTimeout)]
                /\ Fails
             \/ /\ w' = [w EXCEPT ![id] = [r EXCEPT !.pc = "logs"]]
                /\ Returns
    /\ UNCHANGED <<files, lock, tick, unlinks, runs, cancelAt, poolMax>>

\* logs = #statuslog's text; UPDATE jobs SET logs; throw on a failure keyword.
WLogs(id) ==
    /\ w[id].pc = "logs"
    /\ \/ /\ w' = [w EXCEPT ![id] = Throw(@, ErrDriver)]
          /\ Fails
          /\ UNCHANGED jobs
       \/ /\ w' = [w EXCEPT ![id] = Throw(@, ErrStore)]
          /\ Fails
          /\ UNCHANGED jobs
       \/ /\ \E logs \in LogTexts :
               /\ jobs' = [jobs EXCEPT ![id].logs = logs]
               /\ w' = [w EXCEPT ![id] =
                          IF PortalReportsError(logs) THEN Throw(@, ErrPortal)
                          ELSE [@ EXCEPT !.pc = "wait"]]
          /\ Returns
    /\ UNCHANGED <<files, lock, tick, unlinks, runs, cancelAt, poolMax>>

\* } while (settings.cycle): does the worker start another pass?
AnotherPassMutant(cycle) == FALSE

AnotherPassInvertedMutant(cycle) == ~cycle

AnotherPass(cycle) == cycle

\* i++ of the for loop and the do/while condition: the next image, the first
\* image of another pass, or the completed write.
Advance(id, r) ==
    IF r.i + 1 < jobs[id].images
    THEN [r EXCEPT !.pc = "check", !.i = @ + 1]
    ELSE IF AnotherPass(jobs[id].cycle)
         THEN [r EXCEPT !.pc = "check", !.i = 0, !.uploaded = <<>>]
         ELSE Leave(r, "complete")

\* if (waitTime > 0 && (i < images.length - 1 || settings.cycle))
Waits(id, i) ==
    /\ ParseInterval(jobs[id].interval) * 60 * 1000 > 0
    /\ i < jobs[id].images - 1 \/ jobs[id].cycle

\* The interval wait: 'Waiting for N minute(s)...' and the sleep, or neither.
WWait(id) ==
    /\ w[id].pc = "wait"
    /\ \/ /\ Waits(id, w[id].i)
          /\ \/ /\ w' = [w EXCEPT ![id] = Throw(@, ErrStore)]
                /\ Fails
                /\ UNCHANGED jobs
             \/ /\ WriteProgress(id, ProgressWaiting(jobs[id].interval))
                /\ w' = [w EXCEPT ![id].pc = "sleep"]
                /\ Returns
       \/ /\ ~Waits(id, w[id].i)
          /\ w' = [w EXCEPT ![id] = Advance(id, @)]
          /\ UNCHANGED <<jobs, faults>>
    /\ UNCHANGED <<files, lock, tick, unlinks, runs, cancelAt, poolMax>>

\* The sleep's timer fires.
WWake(id) ==
    /\ w[id].pc = "sleep"
    /\ w' = [w EXCEPT ![id] = Advance(id, @)]
    /\ UNCHANGED <<jobs, files, lock, tick, unlinks, runs, cancelAt, faults, poolMax>>

\* UPDATE jobs SET status = 'completed', progress = '...' WHERE id = $1
WComplete(id) ==
    /\ w[id].pc = "complete"
    /\ \/ /\ w' = [w EXCEPT ![id] = Throw(@, ErrStore)]
          /\ Fails
          /\ UNCHANGED jobs
       \/ /\ jobs' = [jobs EXCEPT ![id].status = "completed",
                                  ![id].progress = ProgressCompleted]
          /\ w' = [w EXCEPT ![id].pc = "finally"]
          /\ Returns
    /\ UNCHANGED <<files, lock, tick, unlinks, runs, cancelAt, poolMax>>

\* error.message.includes('click') || error.message.includes('clickable') ? ... : error.message
ErrorMessageMutant(message) == message

ErrorMessage(message) ==
    IF Includes(message, "click") \/ Includes(message, "clickable")
    THEN ClickMessage
    ELSE message

\* catch: UPDATE jobs SET status = 'failed', progress = 'An error occurred: ...'.
\* When this write rejects, its error leaves the catch in place of the caught
\* one; the finally block runs either way.
WCatch(id) ==
    /\ w[id].pc = "catch"
    /\ \/ /\ w' = [w EXCEPT ![id].pc = "finally", ![id].error = ErrStore,
                            ![id].clicks = 0]
          /\ Fails
          /\ UNCHANGED jobs
       \/ /\ jobs' = [jobs EXCEPT ![id].status = "failed",
                                  ![id].progress = ProgressError(ErrorMessage(w[id].error))]
          /\ w' = [w EXCEPT ![id].pc = "finally", ![id].clicks = 0]
          /\ Returns
    /\ UNCHANGED <<files, lock, tick, unlinks, runs, cancelAt, poolMax>>

\* finally: if (browser) await browser.close(); fs.unlink for every image;
\* client.release().  When close() rejects, no unlink is called and the
\* client is not released.  Each unlink
\* removes its file or fails with an err that is logged; the callbacks touch
\* this job's files alone, so they are part of the step.
WFinally(id) ==
    /\ w[id].pc = "finally"
    /\ \/ /\ w[id].browser = "open"
          /\ w' = [w EXCEPT ![id].pc = "done"]
          /\ Fails
          /\ UNCHANGED <<files, unlinks>>
       \/ /\ w' = [w EXCEPT ![id].pc = "done", ![id].client = "released",
                            ![id].browser = IF @ = "open" THEN "closed" ELSE @]
          /\ unlinks' = unlinks \cup {<<id, k>> : k \in Images(id)}
          /\ \/ /\ files' = files \ {<<id, k>> : k \in Images(id)}
                /\ Returns
             \/ /\ \E kept \in (SUBSET {<<id, k>> : k \in Images(id)}) \ {{}} :
                     files' = files \ ({<<id, k>> : k \in Images(id)} \ kept)
                /\ Fails
    /\ UNCHANGED <<jobs, lock, tick, runs, cancelAt, poolMax>>

Worker(id) ==
    \/ WConnect(id) \/ WLogin(id) \/ WCheck(id) \/ WRefresh(id) \/ WSelect(id)
    \/ WProgress(id) \/ WClick(id) \/ WConfirm(id) \/ WLogs(id) \/ WWait(id)
    \/ WWake(id) \/ WComplete(id) \/ WCatch(id) \/ WFinally(id)

Next ==
    \/ \E req \in Requests, code \in {201, 400, 500} : CreateJob(req, code)
    \/ \E code \in {200, 404} : JobStatus(code)
    \/ \E id \in JobIds, code \in {200, 404, 500} : StopJob(id, code)
    \/ \E t \in Tickers : TickSelect(t) \/ TickUpdate(t) \/ TickError(t)
    \/ \E id \in JobIds : Worker(id)

Spec == Init /\ [][Next]_vars

\* ================================================================ claims

\* C1: exclusive claim.  However the dispatch ticks interleave, a row is
\* locked by at most one tick at a time, the row a tick holds is a queued row
\* no worker was started for, and no job ever has two processJob calls.
C1_ExclusiveClaim ==
    /\ \A id \in JobIds : runs[id] <= 1
    /\ \A t \in Tickers :
         tick[t].pc = "update" =>
            /\ Exists(tick[t].row)
            /\ jobs[tick[t].row].status = "queued"
            /\ runs[tick[t].row] = 0
            /\ lock[tick[t].row] = t
            /\ \A o \in Tickers \ {t} :
                 tick[o].pc = "update" => tick[o].row # tick[t].row

\* Two ticks are in flight at once, each holding a queued row.
C1_Witness ==
    \E t1, t2 \in Tickers :
        t1 # t2 /\ tick[t1].pc = "update" /\ tick[t2].pc = "update"

\* One tick holds the only queued row while a worker already runs for the
\* other job: the second tick found nothing else to claim.
C1_WitnessSingle ==
    \E t \in Tickers, id \in JobIds :
        /\ tick[t].pc = "update"
        /\ \A o \in DOMAIN jobs : o # tick[t].row => jobs[o].status # "queued"
        /\ runs[id] = 1

\* C2: once a job's status is completed, failed or cancelled, no step
\* changes it.
C2_TerminalIsFinal ==
    [][\A id \in DOMAIN jobs :
          jobs[id].status \in Terminal => jobs'[id].status = jobs[id].status]_vars

\* C3: cleanup guarantee, in the form a finite run refutes.  When a job is
\* terminal and no processJob call for it is running or can still start
\* (none was started, or the one started has ended), none of its image files
\* is left.
C3_CleanupGuarantee ==
    \A id \in DOMAIN jobs :
        (jobs[id].status \in Terminal /\ w[id].pc \in {"none", "done"})
            => \A k \in Images(id) : <<id, k>> \notin files

\* C4: cancellation checkpoint.  After /stop-job cancelled a job whose worker
\* was between two images, the worker uploads no further image and the status
\* stays cancelled.
C4_CancellationCheckpoint ==
    [][\A id \in DOMAIN jobs :
          cancelAt[id] = "between" =>
             /\ jobs'[id].status = "cancelled"
             /\ Len(w'[id].uploaded) <= Len(w[id].uploaded)]_vars

\* C5: a /stop-job request whose query returns answers 200 and sets the
\* status to cancelled exactly when the job exists and is queued or running;
\* otherwise it answers 404 and changes no field of any job.  Whatever the
\* answer, no other row changes.
C5_StopJobEffect ==
    [][\A id \in JobIds, code \in {200, 404, 500} :
          StopJob(id, code) =>
             /\ (code # 500 /\ Exists(id) /\ jobs[id].status \in {"queued", "running"})
                   => /\ code = 200
                      /\ jobs'[id].status = "cancelled"
                      /\ jobs'[id].progress = ProgressCancelled
             /\ ~(Exists(id) /\ jobs[id].status \in {"queued", "running"})
                   => (code # 200 /\ jobs' = jobs)
             /\ \A o \in DOMAIN jobs : o # id => jobs'[o] = jobs[o]]_vars

\* A job was cancelled by /stop-job.
C5_Witness ==
    \E id \in DOMAIN jobs :
        /\ cancelAt[id] # "none"
        /\ jobs[id].status = "cancelled"
        /\ jobs[id].progress = ProgressCancelled

\* C6: submit retry.  The click loop of an image makes at most MaxAttempts
\* clicks and goes on only after a not-clickable error: k < 10 not-clickable
\* clicks and then a good one take k + 1 clicks and the worker goes on to the
\* confirmation; another error ends the loop at once with that error; 10
\* not-clickable clicks end it with the retries error.  A worker that ended
\* on the retries error (its failed write accepted by the store) leaves the
\* job failed with the message that names the submit control; a worker of a
\* job without cycle that ended with no error and no cancellation leaves it
\* completed.
C6_ClickStep ==
    \A id \in JobIds :
      w[id].pc = "click" =>
        \A in \in ClickInputs :
          WClickOn(id, in) =>
           /\ w'[id].clicks <= MaxAttempts
           /\ (in.k < MaxAttempts /\ in.last = "ok")
                 => (w'[id].pc = "confirm" /\ w'[id].clicks = in.k + 1)
           /\ (in.k < MaxAttempts /\ in.last # "ok")
                 => /\ w'[id].pc = "catch"
                    /\ w'[id].error = in.last
                    /\ w'[id].clicks = in.k + 1
           /\ in.k >= MaxAttempts
                 => /\ w'[id].pc = "catch"
                    /\ w'[id].error = ErrRetries
                    /\ w'[id].clicks = MaxAttempts

C6_Outcome ==
    \A id \in DOMAIN jobs :
        /\ (w[id].pc \in {"finally", "done"} /\ w[id].error = ErrRetries)
              => /\ jobs[id].status = "failed"
                 /\ jobs[id].progress = ProgressError(ClickMessage)
                 /\ Includes(jobs[id].progress[2], UPLOAD_SUBMIT_BUTTON_SELECTOR)
        /\ (w[id].pc = "done" /\ w[id].error = "" /\ ~jobs[id].cycle
               /\ cancelAt[id] = "none")
              => /\ jobs[id].status = "completed"
                 /\ jobs[id].progress = ProgressCompleted

C6_SubmitRetry == [][C6_ClickStep]_vars /\ []C6_Outcome

\* A worker ended on the retries error: ten clicks were not clickable.
C6_Witness ==
    \E id \in DOMAIN jobs :
        /\ w[id].pc = "done"
        /\ w[id].error = ErrRetries
        /\ jobs[id].status = "failed"

\* A click loop ended well after nine clicks that were not clickable.
C6_WitnessRetry ==
    \E id \in DOMAIN jobs : w[id].pc = "confirm" /\ w[id].clicks = MaxAttempts

C7_EndsPass(id) ==
    /\ w[id].pc \in {"wait", "sleep"}
    /\ w[id].i = jobs[id].images - 1
    /\ w'[id].pc \notin {"sleep", "catch"}
    /\ w'[id] # w[id]

\* C7 as amended: for a job with cycle = true the step that ends the last
\* image of a pass takes the worker back to the status check of image 1,
\* never to the completed write; the job never gets status completed; and a
\* step that makes its status terminal is a cancellation (cancelled) or the
\* worker's failure write (failed).
C7_CycleStep ==
    \A id \in DOMAIN jobs :
        jobs[id].cycle =>
           /\ C7_EndsPass(id) =>
                 /\ w'[id].pc = "check"
                 /\ w'[id].i = 0
                 /\ ~w'[id].isFirstImageOfJob
           /\ (jobs[id].status \notin Terminal /\ jobs'[id].status \in Terminal)
                 => \/ jobs'[id].status = "cancelled" /\ w'[id] = w[id]
                    \/ jobs'[id].status = "failed" /\ w[id].pc = "catch"

C7_NeverCompleted ==
    \A id \in DOMAIN jobs :
        jobs[id].cycle =>
           /\ jobs[id].status # "completed"
           /\ w[id].pc # "complete"
           /\ (w[id].pc = "click" /\ jobs[id].status = "running")
                 => jobs[id].progress = ProgressUploading(w[id].i + 1, jobs[id].images)

C8_OrderPreservation ==
    \A id \in DOMAIN jobs :
        LET r == w[id] IN
        /\ r.uploaded = [k \in 1..Len(r.uploaded) |-> k]
        /\ Len(r.uploaded) <= jobs[id].images
        /\ r.pc \in {"check", "refresh", "select", "progress"}
              => Len(r.uploaded) = r.i
        /\ r.pc \in {"click", "confirm", "logs", "wait", "sleep"}
              => Len(r.uploaded) = r.i + 1
        /\ (r.pc = "click" /\ jobs[id].status = "running")
              => jobs[id].progress = ProgressUploading(r.uploaded[Len(r.uploaded)],
                                                      jobs[id].images)

\* The second image of a job is being uploaded after the first.
C8_Witness ==
    \E id \in DOMAIN jobs : w[id].pc = "click" /\ w[id].uploaded = <<1, 2>>

\* C9: a claimed job with cycle = false whose worker has ended is in a
\* terminal status, and that status was written once: no step changes a
\* terminal status of such a job.
C9_Ended ==
    \A id \in DOMAIN jobs :
        (~jobs[id].cycle /\ w[id].pc = "done") => jobs[id].status \in Terminal

C9_Once ==
    \A id \in DOMAIN jobs :
        (~jobs[id].cycle /\ runs[id] > 0 /\ jobs[id].status \in Terminal)
            => jobs'[id].status = jobs[id].status

C9_TerminalExactlyOnce == []C9_Ended /\ [][C9_Once]_vars

\* C10: a step of the /create-job handler that changes the jobs table is the
\* answer 201 to a request that has a file, userId, portalUser, portalPass
\* and displayValue, and it adds exactly one row, with status queued, and
\* changes no other row.  So a request with no file or without one of the
\* fields, which the handler answers 400, adds no row.  (A step that changes
\* a worker or a tick is no step of the handler.)
C10_CreateJobValidation ==
    [][(jobs' # jobs /\ w' = w /\ tick' = tick) =>
       \A req \in Requests, code \in {201, 400, 500} :
          CreateJob(req, code) =>
             /\ code = 201
             /\ req.files >= 1
             /\ req.userId # "" /\ req.portalUser # ""
             /\ req.portalPass # "" /\ req.displayValue # ""
             /\ Len(jobs') = Len(jobs) + 1
             /\ jobs'[Len(jobs')].status = "queued"
             /\ jobs'[Len(jobs')].images = req.files
             /\ \A id \in DOMAIN jobs : jobs'[id] = jobs[id]]_vars

\* An accepted request added a queued row with its files.
C10_Witness ==
    \E id \in DOMAIN jobs :
        /\ jobs[id].status = "queued"
        /\ jobs[id].progress = ProgressCreated
        /\ \A k \in Images(id) : <<id, k>> \in files

\* The queued jobs of the table.
C11_Queued == {id \in DOMAIN jobs : jobs[id].status = "queued"}

\* C11: a dispatch tick whose claim statement starts while no other claim
\* statement is in flight takes the queued job with the smallest creation
\* time (ids grow with creation time); from then until the statement commits
\* no step changes that row; the commit sets exactly that row to running and
\* leaves every other row as it was; and while no job is queued no tick takes
\* a row or changes a job.
C11_ClaimStep ==
    \A t \in Tickers :
        /\ (tick[t].pc = "idle" /\ tick'[t].pc = "update")
              => /\ jobs' = jobs
                 /\ tick'[t].row \in C11_Queued
                 /\ (\A o \in Tickers : tick[o].pc = "idle")
                       => \A id \in C11_Queued : tick'[t].row <= id
        /\ (tick[t].pc = "update" /\ tick'[t] = tick[t])
              => jobs'[tick[t].row] = jobs[tick[t].row]
        /\ (tick[t].pc = "update" /\ tick'[t].pc = "idle" /\ jobs' # jobs)
              => /\ jobs[tick[t].row].status = "queued"
                 /\ jobs'[tick[t].row].status = "running"
                 /\ DOMAIN jobs' = DOMAIN jobs
                 /\ \A id \in DOMAIN jobs : id # tick[t].row => jobs'[id] = jobs[id]
        /\ (tick[t].pc = "idle" /\ C11_Queued = {})
              => (tick'[t].pc = "idle" /\ (tick' # tick => jobs' = jobs))

C11_OldestFirst == [][C11_ClaimStep]_vars

\* The only claim statement in flight holds the older of two queued jobs.
C11_Witness ==
    \E t \in Tickers :
        /\ tick[t].pc = "update"
        /\ \A o \in Tickers \ {t} : tick[o].pc = "idle"
        /\ Cardinality(C11_Queued) = 2
        /\ tick[t].row = 1

\* C12: the commit of a claim statement is the only step that makes a job
\* running, and it does so from queued only and starts the job's one worker;
\* no step makes a job queued again; so a job is claimed at most once and a
\* job that was claimed is never queued, also after its worker ended and
\* left it running.
C12_Step ==
    \A id \in DOMAIN jobs :
        /\ (jobs[id].status # "running" /\ jobs'[id].status = "running")
              => /\ jobs[id].status = "queued"
                 /\ \E t \in Tickers :
                      /\ tick[t] = [pc |-> "update", row |-> id]
                      /\ tick'[t].pc = "idle"
                 /\ runs'[id] = runs[id] + 1
        /\ jobs'[id].status = "queued" => jobs[id].status = "queued"
        /\ runs'[id] # runs[id] => (jobs[id].status = "queued" /\ runs[id] = 0)

C12_ClaimedOnce ==
    \A id \in DOMAIN jobs :
        /\ runs[id] <= 1
        /\ runs[id] = 1 => jobs[id].status # "queued"
        /\ runs[id] = 0 => jobs[id].status \in {"queued", "cancelled"}

C12_OnlyClaimMakesRunning == [][C12_Step]_vars /\ []C12_ClaimedOnce

\* A worker ended without a terminal write and left its job running, and a
\* claim statement can run.
C12_Witness ==
    \E id \in DOMAIN jobs :
        /\ w[id].pc = "done"
        /\ jobs[id].status = "running"
        /\ runs[id] = 1
        /\ \A t \in Tickers : tick[t].pc = "idle"
        /\ FreeClient

\* The processJob calls that hold a pool client: those still running, and
\* those that ended without client.release().
C13_Running == {id \in JobIds : w[id].client = "held" /\ w[id].pc # "done"}

C14_Ended == {id \in JobIds : w[id].client = "held" /\ w[id].pc = "done"}

\* C13: the dispatch loop never blocks on a running job.  Whenever a tick
\* fires while a queued job waits, the clients held by the workers of the
\* running jobs leave it one, so its claim statement can run.
C13_NeverBlocksOnRunningJob ==
    \A t \in Tickers :
        (tick[t].pc = "idle" /\ C14_Ended = {} /\ \E id \in JobIds : Claimable(id))
            => Cardinality(C13_Running) < poolMax

\* C14: no failure of a worker stops the dispatch loop.  Whenever a tick
\* fires while a queued job waits and no worker is running, whatever the
\* workers that ended have done, its claim statement can run.
C14_WorkerFailureKeepsLoop ==
    \A t \in Tickers :
        (tick[t].pc = "idle" /\ C13_Running = {} /\ \E id \in JobIds : Claimable(id))
            => Cardinality(C14_Ended) < poolMax

\* C15: every write of the worker is guarded by the job's status, so once a
\* job is terminal no step changes any field of its row.
C15_GuardedWrites ==
    [][\A id \in DOMAIN jobs :
          jobs[id].status \in Terminal => jobs'[id] = jobs[id]]_vars

\* C16: a progress or logs write that fails does not abort the job: the step
\* of the worker that makes the write never throws the store's error.
C16_BestEffortWrites ==
    [][\A id \in JobIds :
          (w[id].pc \in {"login", "refresh", "select", "progress", "confirm",
                         "logs", "wait"}
              /\ w'[id].pc = "catch")
             => w'[id].error # ErrStore]_vars

\* C17: a worker that ended on a diagnostic text with a failure keyword has
\* persisted the text to logs and left the job failed with that text as the
\* reason in progress.
C17_PortalTextIsReason ==
    \A id \in DOMAIN jobs :
        (w[id].pc \in {"finally", "done"} /\ w[id].error = ErrPortal)
            => /\ PortalReportsError(jobs[id].logs)
               /\ jobs[id].status = "failed"
               /\ jobs[id].progress = ProgressError(jobs[id].logs)

\* C18: a worker that ended on a driver error other than a not-clickable
\* submit click (launch, login, selection, another click error, confirmation
\* timeout) has left the job failed with that error's message in progress.
C18_DriverErrorFails ==
    \A id \in DOMAIN jobs :
        (w[id].pc \in {"finally", "done"}
            /\ w[id].error \in {ErrLaunch, ErrDriver, ErrNotClickable, ErrTimeout})
            => /\ jobs[id].status = "failed"
               /\ jobs[id].progress = ProgressError(w[id].error)

\* C19: the interval wait is cancellable at wake-up.  A job with an interval
\* that was cancelled while its worker slept, or was about to make the status
\* check that follows the wait, gets no further write from the worker and no
\* further image is uploaded.
C19_WaitCancellable ==
    [][\A id \in DOMAIN jobs :
          (cancelAt[id] = "between" /\ ParseInterval(jobs[id].interval) > 0)
             => /\ jobs'[id] = jobs[id]
                /\ Len(w'[id].uploaded) <= Len(w[id].uploaded)]_vars

\* C20: a worker that ended after it had launched a browser has closed the
\* session or tried to, and has called unlink for every image file of the
\* job either way.
C20_CleanupAttempted ==
    \A id \in DOMAIN jobs :
        (w[id].pc = "done" /\ w[id].browser # "null")
            => \A k \in Images(id) : <<id, k>> \in unlinks

\* C21: a step that deletes an image file of a job, or calls unlink for it,
\* is taken when the job's status is terminal, and unlink was not called for
\* that file before.
C21_DeletedOnceAfterTerminal ==
    [][\A id \in DOMAIN jobs : \A k \in Images(id) :
          (<<id, k>> \in (files \ files') \/ <<id, k>> \in (unlinks' \ unlinks))
             => /\ jobs[id].status \in Terminal
                /\ <<id, k>> \notin unlinks]_vars

\* The diagnostic texts with no failure keyword, whatever the case of their
\* letters.
C22_CleanTexts == {"Image pushed to display"}

\* C22: a job is completed only after a whole pass.  The worker goes to the
\* completed write only from the end of the last image's steps, with every
\* image of the job uploaded in order and the last acknowledgement free of
\* failure keywords; it goes from one image to the next only from the end of
\* an image's steps; while it is at the end of an image's steps the
\* acknowledgement persisted for the image has no failure keyword; and only
\* the worker's completed write makes a job completed.
C22_Step ==
    \A id \in DOMAIN jobs :
        /\ (w[id].pc # "complete" /\ w'[id].pc = "complete")
              => /\ w[id].pc \in {"wait", "sleep"}
                 /\ w[id].i = jobs[id].images - 1
                 /\ w[id].uploaded = [k \in 1..jobs[id].images |-> k]
                 /\ jobs[id].logs \in C22_CleanTexts
        /\ (w[id].pc \notin {"login", "check"} /\ w'[id].pc = "check")
              => (w[id].pc \in {"wait", "sleep"} /\ jobs[id].logs \in C22_CleanTexts)
        /\ (jobs[id].status # "completed" /\ jobs'[id].status = "completed")
              => (w[id].pc = "complete" /\ jobs'[id].logs \in C22_CleanTexts)

C22_Acked ==
    \A id \in DOMAIN jobs :
        /\ w[id].pc \in {"wait", "sleep", "complete"}
              => jobs[id].logs \in C22_CleanTexts
        /\ jobs[id].status = "completed"
              => (jobs[id].logs \in C22_CleanTexts /\ ~jobs[id].cycle
                    /\ w[id].pc \in {"finally", "done"})

C22_CompletedAfterWholePass == [][C22_Step]_vars /\ []C22_Acked

\* A job of two images is completed.
C22_Witness ==
    \E id \in DOMAIN jobs :
        /\ jobs[id].status = "completed"
        /\ jobs[id].images = 2
        /\ w[id].pc = "done"

\* C23: a job whose cycle setting is true never has status completed: it is
\* queued or running, or it has ended failed or cancelled; and its worker is
\* never at the completed write.
C23_CycleNeverCompleted ==
    \A id \in DOMAIN jobs :
        jobs[id].cycle
            => /\ jobs[id].status \in {"queued", "running", "failed", "cancelled"}
               /\ w[id].pc # "complete"

\* A cycling job has finished a whole pass and is running still.
C23_Witness ==
    \E id \in DOMAIN jobs :
        /\ jobs[id].cycle
        /\ jobs[id].status = "running"
        /\ w[id].pc = "check"
        /\ w[id].i = 0
        /\ ~w[id].isFirstImageOfJob

\* C24: a job cancelled while it was queued is never claimed: no claim
\* statement holds its row, no worker was started for it, no browser was
\* launched, none of its images was uploaded, and its row stays as the
\* cancellation left it, with no logs.
C24_CancelledQueuedNeverClaimed ==
    \A id \in DOMAIN jobs :
        cancelAt[id] = "queued"
            => /\ runs[id] = 0
               /\ w[id] = NoWorker
               /\ lock[id] = 0
               /\ \A t \in Tickers : tick[t].row # id
               /\ jobs[id].status = "cancelled"
               /\ jobs[id].progress = ProgressCancelled
               /\ jobs[id].logs = "NULL"

\* The older job was cancelled while queued and the younger one was claimed.
C24_Witness ==
    /\ Len(jobs) = 2
    /\ cancelAt[1] = "queued"
    /\ runs[2] = 1

\* The workers of cycling jobs that run and hold a pool client: each keeps
\* its client until its job is cancelled or fails.
C25_Cycling ==
    {id \in DOMAIN jobs : /\ jobs[id].cycle
                          /\ jobs[id].status = "running"
                          /\ w[id].client = "held"
                          /\ w[id].pc # "done"}

\* C25: running jobs never starve the other operations of connections.
\* However many cycling jobs are in flight, their workers leave a client in
\* the pool, so that a cancellation request, a status poll or a dispatch tick
\* gets one.
C25_NoStarvation == Cardinality(C25_Cycling) < poolMax

====
